---- MODULE Spec2Model ----
(***************************************************************************)
(* InvenTrack (src/InvenTrack.jsx): a React view over one Firestore        *)
(* collection.  The model holds the collection (db), one mounted App       *)
(* component (its useState slots), the auth listener, the collection       *)
(* subscription, the in-flight CSV uploads and the pending success timers. *)
(* JavaScript strings that the code splits, trims, lower-cases or searches *)
(* are sequences of one-character strings; messages the code only stores   *)
(* are tuples of TLA+ strings.                                             *)
(***************************************************************************)
EXTENDS Integers, Sequences, FiniteSets, TLC

\* ------------------------------------------------------------------ bounds
\* Document ids the store hands out in one run (auto-IDs are never reused).
MaxIds == 6
\* Data rows of a generated CSV text in the parser specification.
MaxRows == 2
\* Ids of a run of the specifications that add inputs, histories or fairness.
MaxFewIds == 3

\* ------------------------------------------------------- JavaScript strings
NL == "\n"
COMMA == ","
\* String.prototype.trim strips these (only the ones the inputs use).
WhiteSpace == {" ", "\r", NL}

\* toLowerCase, one character.
LowerChar(c) ==
  CASE c = "A" -> "a" [] c = "B" -> "b" [] c = "C" -> "c" [] c = "E" -> "e"
    [] c = "G" -> "g" [] c = "M" -> "m" [] c = "N" -> "n" [] c = "O" -> "o"
    [] c = "R" -> "r" [] c = "T" -> "t" [] c = "U" -> "u" [] c = "X" -> "x"
    [] c = "Y" -> "y" [] OTHER -> c

toLowerCase(s) == [i \in 1..Len(s) |-> LowerChar(s[i])]

RECURSIVE TrimStart(_)
TrimStart(s) ==
  IF s = <<>> THEN <<>>
  ELSE IF Head(s) \in WhiteSpace THEN TrimStart(Tail(s)) ELSE s

RECURSIVE TrimEnd(_)
TrimEnd(s) ==
  IF s = <<>> THEN <<>>
  ELSE IF s[Len(s)] \in WhiteSpace THEN TrimEnd(SubSeq(s, 1, Len(s) - 1)) ELSE s

trim(s) == TrimEnd(TrimStart(s))

\* String.prototype.split(d): "a,b," gives <<"a","b","">>, "" gives <<"">>.
RECURSIVE SplitFrom(_, _, _)
SplitFrom(s, d, cur) ==
  IF s = <<>> THEN <<cur>>
  ELSE IF Head(s) = d THEN <<cur>> \o SplitFrom(Tail(s), d, <<>>)
  ELSE SplitFrom(Tail(s), d, Append(cur, Head(s)))

split(s, d) == SplitFrom(s, d, <<>>)

\* Array.prototype.indexOf: 0-based, -1 when absent.
indexOf(arr, x) ==
  IF \E i \in 1..Len(arr) : arr[i] = x
  THEN (CHOOSE i \in 1..Len(arr) : arr[i] = x /\ \A j \in 1..(i - 1) : arr[j] # x) - 1
  ELSE -1

\* String.prototype.includes.
includes(s, q) ==
  \E i \in 0..(Len(s) - Len(q)) : SubSeq(s, i + 1, i + Len(q)) = q

\* arr[k] for a 0-based k: the empty string stands for undefined as well, both
\* being falsy in the two places the parser reads a field.
FieldAt(arr, k) == IF k + 1 \in 1..Len(arr) THEN arr[k + 1] ELSE <<>>

sName == <<"n", "a", "m", "e">>
sCategory == <<"c", "a", "t", "e", "g", "o", "r", "y">>
Uncategorized == <<"U", "n", "c", "a", "t", "e", "g", "o", "r", "i", "z", "e", "d">>

\* ------------------------------------------------------------------ parseCSV
FormatErrorMsg == "CSV must contain \"name\" and \"category\" columns."

\* One data line, given the column indices: <<>> when the line is skipped or
\* its name is empty, else the one record pushed.
ParseRow(line, nameIndex, categoryIndex) ==
  IF line = <<>> THEN <<>>
  ELSE LET values == split(line, COMMA)
           name == IF FieldAt(values, nameIndex) # <<>>
                   THEN trim(FieldAt(values, nameIndex)) ELSE <<>>
           category == IF FieldAt(values, categoryIndex) # <<>>
                       THEN trim(FieldAt(values, categoryIndex)) ELSE Uncategorized
       IN IF name # <<>>
          THEN << [name |-> name, category |-> category, taken |-> FALSE] >>
          ELSE <<>>

RECURSIVE ParseRows(_, _, _, _)
ParseRows(lines, i, nameIndex, categoryIndex) ==
  IF i > Len(lines) THEN <<>>
  ELSE ParseRow(lines[i], nameIndex, categoryIndex)
         \o ParseRows(lines, i + 1, nameIndex, categoryIndex)

\* [ok |-> FALSE, msg] for the thrown Error, else [ok |-> TRUE, items].
parseCSV(csvText) ==
  LET lines == split(trim(csvText), NL)
      headers == [i \in 1..Len(split(lines[1], COMMA)) |->
                    toLowerCase(trim(split(lines[1], COMMA)[i]))]
      nameIndex == indexOf(headers, sName)
      categoryIndex == indexOf(headers, sCategory)
  IN IF nameIndex = -1 \/ categoryIndex = -1
     THEN [ok |-> FALSE, msg |-> FormatErrorMsg, items |-> <<>>]
     ELSE [ok |-> TRUE, msg |-> "",
           items |-> ParseRows(lines, 2, nameIndex, categoryIndex)]

\* ------------------------------------------------------------- the inputs
\* CSV files the user can pick.  1: CRLF-free text with a whitespace-only
\* category on a middle row; 2: columns swapped, upper-case header, an empty
\* category; 3: no category column; 4: header only.
FileText(f) ==
  CASE f = 1 -> <<"n","a","m","e",",","c","a","t","e","g","o","r","y",NL,
                  "a",",","X",NL, "b",","," ",NL, "A","b",",","X">>
    [] f = 2 -> <<"C","a","t","e","g","o","r","y",","," ","N","A","M","E",NL,
                  "Y",",","b",NL, ",","c",NL>>
    [] f = 3 -> <<"n","a","m","e",NL, "a">>
    [] f = 4 -> <<"n","a","m","e",",","c","a","t","e","g","o","r","y",NL>>

Files == 1..4

\* What parseCSV(e.target.result) gives for each file's text.
ParsedFile == [f \in Files |-> parseCSV(FileText(f))]
\* event.target.files[0] is undefined when the picker is cancelled.
NoFile == 0

\* Search texts typed into the search box.
Queries == { <<>>, <<"B">> }

NULL == "null"
Users == {"u1"}
All == <<"A", "l", "l">>

\* ------------------------------------------------------------- the messages
AuthFailedMsg == <<"Failed to authenticate. Please refresh.">>
LoadFailedMsg == <<"Failed to load items. Check console for details.">>
ReadFailedMsg == <<"Failed to read the file.">>
NoItemsMsg == "No valid items found in the CSV."
SignInFirstMsg == <<"You must be signed in to take an item.">>
UpdateFailedMsg == <<"Failed to update item.">>
\* What a rejected getDocs or batch.commit carries as err.message.
BackendMsg == "backend error"
UploadFailed(msg) == <<"Upload Failed: ", msg>>
NoError == <<>>
NoSuccess == <<>>
\* `Successfully uploaded ${n} items!`
UploadedMsg(n) == <<n>>

Order == <<"Reading", "Parsing", "Replacing", "Committing">>

\* -------------------------------------------------------------------- state
VARIABLES
  db,                \* the collection: document id -> {name, category, taken}
  nextId,            \* the next auto-ID
  items,             \* useState: the mirror
  categories,        \* useState
  selectedCategory,  \* useState
  searchQuery,       \* useState
  isAuthReady,       \* useState
  userId,            \* useState
  isLoading,         \* useState
  error,             \* useState
  uploading,         \* useState
  uploadSuccess,     \* useState
  authQueue,         \* auth states the listener has yet to be called with
  signIn,            \* the sign-in the auth callback awaits: none, pending, resolved
  listeners,         \* live onSnapshot listeners of the view
  snapPending,       \* the collection changed since the last delivered snapshot
  inflight,          \* the handleFileUpload calls that have not finished
  timers,            \* pending setTimeout callbacks of successful uploads
  outcome,           \* how the upload that finished last ended, and in which step
  lastOk,            \* history: the last committed upload's file and resulting size
  dbl,               \* history: the first item toggled and its first two toggles
  budget,            \* the document ids this run of the model may hand out
  pIn, pOut,         \* the parser's input and result in the parser specification
  remote,            \* another client's handleFileUpload call on the same collection
  mounted            \* the App component has not been unmounted

vars == << db, nextId, items, categories, selectedCategory, searchQuery,
           isAuthReady, userId, isLoading, error, uploading, uploadSuccess,
           authQueue, signIn, listeners, snapPending, inflight, timers,
           outcome, lastOk, dbl, budget, pIn, pOut, remote, mounted >>

appVars == << db, nextId, items, categories, selectedCategory, searchQuery,
              isAuthReady, userId, isLoading, error, uploading, uploadSuccess,
              authQueue, signIn, listeners, snapPending, inflight, timers,
              outcome, lastOk, dbl, budget, remote, mounted >>

NoOutcome == [result |-> "None", at |-> "None"]
NoOk == [file |-> NoFile, size |-> 0, run |-> 0]
NoToggle == [id |-> 0, orig |-> FALSE, calls |-> 0]
\* The toggle history switched off (its absorbing value).
Untracked == [id |-> 0, orig |-> FALSE, calls |-> 3]
NoParse == [done |-> FALSE, ok |-> FALSE, msg |-> "", items |-> <<>>]
\* The other client has not picked a file.
NoRemote == [pc |-> "Idle", file |-> NoFile, existing |-> {}]

\* The state right after the module is loaded and App is mounted: the auth
\* listener is attached and will be called with the stored session, if any.
\* ids: the run's id budget; tracking: whether the toggle history is kept;
\* stored: the items already in the collection.
InitApp(ids, tracking, stored) ==
  /\ db = [id \in 1..Len(stored) |-> stored[id]]
  /\ nextId = Len(stored) + 1
  /\ items = << >>
  /\ categories = << >>
  /\ selectedCategory = All
  /\ searchQuery = << >>
  /\ isAuthReady = FALSE
  /\ userId = NULL
  /\ isLoading = TRUE
  /\ error = NoError
  /\ uploading = FALSE
  /\ uploadSuccess = NoSuccess
  /\ authQueue \in { <<NULL>> } \cup { <<u>> : u \in Users }
  /\ signIn = "none"
  /\ listeners = 0
  /\ snapPending = FALSE
  /\ inflight = << >>
  /\ timers = 0
  /\ outcome = NoOutcome
  /\ lastOk = NoOk
  /\ dbl = IF tracking THEN NoToggle ELSE Untracked
  /\ budget = ids
  /\ remote = NoRemote
  /\ mounted = TRUE

Init ==
  /\ InitApp(MaxIds, FALSE, << >>)
  /\ pIn = << >>
  /\ pOut = NoParse

\* ------------------------------------------------------- derived view state
categoryFilteredItems ==
  IF selectedCategory = All THEN items
  ELSE SelectSeq(items, LAMBDA item : item.category = selectedCategory)

\* Faulty variant: the search runs over the whole mirror.
displayedItemsOfMirror ==
  IF searchQuery = << >> THEN categoryFilteredItems
  ELSE LET lowerCaseQuery == toLowerCase(searchQuery)
       IN SelectSeq(items,
                    LAMBDA item : includes(toLowerCase(item.name), lowerCaseQuery))

displayedItems ==
  IF searchQuery = << >> THEN categoryFilteredItems
  ELSE LET lowerCaseQuery == toLowerCase(searchQuery)
       IN SelectSeq(categoryFilteredItems,
                    LAMBDA item : includes(toLowerCase(item.name), lowerCaseQuery))

\* Faulty variant: the numbers taken from the searched list.
dashboardStatsOfDisplayed ==
  LET sourceItems == displayedItems
      total == Len(sourceItems)
      taken == Len(SelectSeq(sourceItems, LAMBDA item : item.taken))
  IN [total |-> total, taken |-> taken, notTaken |-> total - taken]

dashboardStats ==
  LET sourceItems == categoryFilteredItems
      total == Len(sourceItems)
      taken == Len(SelectSeq(sourceItems, LAMBDA item : item.taken))
  IN [total |-> total, taken |-> taken, notTaken |-> total - taken]

\* The main UI is returned by render: not the "Loading..." screen.
Rendered == isAuthReady /\ ~isLoading

\* ------------------------------------------------------------ the collection
\* A query snapshot's documents, in document-id order.
RECURSIVE DocsFrom(_, _)
DocsFrom(d, i) ==
  IF i > MaxIds THEN << >>
  ELSE (IF i \in DOMAIN d
        THEN << [id |-> i, name |-> d[i].name, category |-> d[i].category,
                 taken |-> d[i].taken] >>
        ELSE << >>) \o DocsFrom(d, i + 1)

SnapshotDocs(d) == DocsFrom(d, 1)

\* Array.from(new Set(['All', ...])): first occurrences, in order.
RECURSIVE AddCategories(_, _, _)
AddCategories(docs, i, acc) ==
  IF i > Len(docs) THEN acc
  ELSE AddCategories(docs, i + 1,
         IF docs[i].category # << >> /\ \A k \in 1..Len(acc) : acc[k] # docs[i].category
         THEN Append(acc, docs[i].category) ELSE acc)

CategoriesOf(docs) == AddCategories(docs, 1, << All >>)

\* Faulty variant: the parsed records are added and nothing is deleted.
BatchAppliedNoDelete(d, existing, parsedItems, first) ==
  LET newIds == first..(first + Len(parsedItems) - 1)
  IN [id \in DOMAIN d \cup newIds |->
        IF id \in newIds THEN parsedItems[id - first + 1] ELSE d[id]]

\* Faulty variant: the commit deletes whatever the collection holds.
BatchAppliedDeleteAll(d, existing, parsedItems, first) ==
  LET newIds == first..(first + Len(parsedItems) - 1)
  IN [id \in newIds |-> parsedItems[id - first + 1]]

\* batch.commit() applied: every fetched id deleted, every parsed record set
\* under a fresh auto-ID, all at once.
BatchApplied(d, existing, parsedItems, first) ==
  LET newIds == first..(first + Len(parsedItems) - 1)
  IN [id \in (DOMAIN d \ existing) \cup newIds |->
        IF id \in newIds THEN parsedItems[id - first + 1] ELSE d[id]]

\* Faulty variant: the deletes of a rejected batch have been applied.
BatchRejectedPartial(d, existing, parsedItems, first) ==
  [id \in DOMAIN d \ existing |-> d[id]]

\* batch.commit() rejected: the batch is all-or-nothing.
BatchRejected(d, existing, parsedItems, first) == d

\* updateDoc(itemRef, {taken: !currentStatus}) applied to an existing document.
UpdateApplied(d, itemId, currentStatus) ==
  [d EXCEPT ![itemId] = [@ EXCEPT !.taken = ~currentStatus]]

\* A listener is told of a change of the collection.
Notify(d2) == snapPending' = (snapPending \/ (listeners > 0 /\ d2 # db))

RemoveAt(seq, k) == SubSeq(seq, 1, k - 1) \o SubSeq(seq, k + 1, Len(seq))

\* ----------------------------------------------------------- authentication
\* Faulty variant: the cleanup leaves the listener subscribed.
UnsubscribeNever(n) == n

\* The effect's cleanup, unsubscribe(): the listener its previous run opened
\* is removed, if that run opened one and it is still live.
Unsubscribe(n) == IF n > 0 THEN n - 1 ELSE 0

\* The subscription effect, run when a render changes [isAuthReady, userId]:
\* the previous run's cleanup unsubscribes, then the effect subscribes if auth
\* is ready and there is a user id.
\* Faulty variant: the guard tests isAuthReady only.
SubscriptionEffectUnguarded(ready2, uid2) ==
  IF << ready2, uid2 >> = << isAuthReady, userId >>
  THEN UNCHANGED << listeners, isLoading, snapPending >>
  ELSE IF ~ready2
       THEN listeners' = Unsubscribe(listeners) /\ UNCHANGED << isLoading, snapPending >>
       ELSE /\ listeners' = Unsubscribe(listeners) + 1
            /\ isLoading' = TRUE
            /\ snapPending' = TRUE

SubscriptionEffect(ready2, uid2) ==
  IF << ready2, uid2 >> = << isAuthReady, userId >>
  THEN UNCHANGED << listeners, isLoading, snapPending >>
  ELSE IF ~ready2 \/ uid2 = NULL
       THEN listeners' = Unsubscribe(listeners) /\ UNCHANGED << isLoading, snapPending >>
       ELSE /\ listeners' = Unsubscribe(listeners) + 1
            /\ isLoading' = TRUE
            /\ snapPending' = TRUE

\* The onAuthStateChanged callback, up to its await (or to its end).
AuthStateChanged ==
  /\ authQueue # << >>
  /\ authQueue' = Tail(authQueue)
  /\ IF Head(authQueue) # NULL
     THEN /\ userId' = Head(authQueue)
          /\ isAuthReady' = TRUE
          /\ SubscriptionEffect(TRUE, Head(authQueue))
          /\ UNCHANGED signIn
     ELSE /\ signIn' = "pending"
          /\ UNCHANGED << userId, isAuthReady, listeners, isLoading, snapPending >>
  /\ UNCHANGED << db, nextId, items, categories, selectedCategory, searchQuery,
                  error, uploading, uploadSuccess, inflight, timers, outcome, lastOk, dbl,
                  budget, pIn, pOut, remote, mounted >>

\* signInWithCustomToken / signInAnonymously resolves: the auth state changes
\* (the listener will be called with the user) and the callback can resume.
SignInResolved ==
  /\ signIn = "pending"
  /\ \E u \in Users : authQueue' = Append(authQueue, u)
  /\ signIn' = "resolved"
  /\ UNCHANGED << db, nextId, items, categories, selectedCategory, searchQuery,
                  isAuthReady, userId, isLoading, error, uploading, uploadSuccess,
                  listeners, snapPending, inflight, timers, outcome, lastOk, dbl, budget, pIn, pOut, remote, mounted >>

\* The callback resumes after the await: setIsAuthReady(true).
SignInContinued ==
  /\ signIn = "resolved"
  /\ signIn' = "none"
  /\ isAuthReady' = TRUE
  /\ SubscriptionEffect(TRUE, userId)
  /\ UNCHANGED << db, nextId, items, categories, selectedCategory, searchQuery,
                  userId, error, uploading, uploadSuccess, authQueue, inflight,
                  timers, outcome, lastOk, dbl, budget, pIn, pOut, remote, mounted >>

\* Faulty variant: a failed sign-in leaves the callback without signalling.
SignInRejectedNotReady ==
  /\ signIn = "pending"
  /\ signIn' = "none"
  /\ error' = AuthFailedMsg
  /\ UNCHANGED << db, nextId, items, categories, selectedCategory, searchQuery,
                  isAuthReady, listeners, isLoading, snapPending,
                  userId, uploading, uploadSuccess, authQueue, inflight, timers,
                  outcome, lastOk, dbl, budget, pIn, pOut, remote, mounted >>

\* The sign-in rejects: the catch sets the error, then setIsAuthReady(true).
SignInRejected ==
  /\ signIn = "pending"
  /\ signIn' = "none"
  /\ error' = AuthFailedMsg
  /\ isAuthReady' = TRUE
  /\ SubscriptionEffect(TRUE, userId)
  /\ UNCHANGED << db, nextId, items, categories, selectedCategory, searchQuery,
                  userId, uploading, uploadSuccess, authQueue, inflight, timers,
                  outcome, lastOk, dbl, budget, pIn, pOut, remote, mounted >>

\* The auth state changes to another user (a sign-in in another tab of the
\* same browser, which shares the stored session): the listener will be called.
OtherUsers == {"u2"}

IdentityChanged ==
  /\ userId # NULL
  /\ authQueue = << >>
  /\ signIn = "none"
  /\ \E u \in (Users \cup OtherUsers) \ {userId} : authQueue' = << u >>
  /\ UNCHANGED << db, nextId, items, categories, selectedCategory, searchQuery,
                  isAuthReady, userId, isLoading, error, uploading, uploadSuccess,
                  signIn, listeners, snapPending, inflight, timers, outcome,
                  lastOk, dbl, budget, pIn, pOut, remote, mounted >>

\* App is unmounted: the cleanups of both effects run (the auth listener and
\* the collection listener are unsubscribed).  React drops the state updates
\* of an unmounted component and runs none of its effects again.
Unmount ==
  /\ mounted
  /\ mounted' = FALSE
  /\ authQueue' = << >>
  /\ listeners' = Unsubscribe(listeners)
  /\ snapPending' = FALSE
  /\ UNCHANGED << db, nextId, items, categories, selectedCategory, searchQuery,
                  isAuthReady, userId, isLoading, error, uploading, uploadSuccess,
                  signIn, inflight, timers, outcome, lastOk, dbl, budget, pIn, pOut,
                  remote >>

\* ------------------------------------------------------------- subscription
\* Faulty variant: the handler adds the snapshot to what the mirror holds of
\* documents that are gone, instead of replacing the mirror.
SnapshotDeliveredMerging ==
  /\ listeners > 0
  /\ snapPending
  /\ items' = SelectSeq(items, LAMBDA item : item.id \notin DOMAIN db) \o SnapshotDocs(db)
  /\ categories' = CategoriesOf(SnapshotDocs(db))
  /\ isLoading' = FALSE
  /\ error' = NoError
  /\ snapPending' = FALSE
  /\ UNCHANGED << db, nextId, selectedCategory, searchQuery, isAuthReady, userId,
                  uploading, uploadSuccess, authQueue, signIn, listeners, inflight,
                  timers, outcome, lastOk, dbl, budget, pIn, pOut, remote, mounted >>

\* onSnapshot's success callback with the collection as it is now.
SnapshotDelivered ==
  /\ listeners > 0
  /\ snapPending
  /\ items' = SnapshotDocs(db)
  /\ categories' = CategoriesOf(SnapshotDocs(db))
  /\ isLoading' = FALSE
  /\ error' = NoError
  /\ snapPending' = FALSE
  /\ UNCHANGED << db, nextId, selectedCategory, searchQuery, isAuthReady, userId,
                  uploading, uploadSuccess, authQueue, signIn, listeners, inflight,
                  timers, outcome, lastOk, dbl, budget, pIn, pOut, remote, mounted >>

\* Faulty variant: the error handler empties the mirror and the category set.
SnapshotFailedClears ==
  /\ listeners > 0
  /\ error' = LoadFailedMsg
  /\ isLoading' = FALSE
  /\ listeners' = 0
  /\ snapPending' = FALSE
  /\ items' = << >>
  /\ categories' = << >>
  /\ UNCHANGED << db, nextId, selectedCategory, searchQuery,
                  isAuthReady, userId, uploading, uploadSuccess, authQueue, signIn,
                  inflight, timers, outcome, lastOk, dbl, budget, pIn, pOut, remote, mounted >>

\* onSnapshot's error callback; the listener gets no further events.
SnapshotFailed ==
  /\ listeners > 0
  /\ error' = LoadFailedMsg
  /\ isLoading' = FALSE
  /\ listeners' = 0
  /\ snapPending' = FALSE
  /\ UNCHANGED << db, nextId, items, categories, selectedCategory, searchQuery,
                  isAuthReady, userId, uploading, uploadSuccess, authQueue, signIn,
                  inflight, timers, outcome, lastOk, dbl, budget, pIn, pOut, remote, mounted >>

\* ------------------------------------------------------------ filter, search
SelectCategory ==
  /\ Rendered
  /\ \E k \in 1..Len(categories) : selectedCategory' = categories[k]
  /\ UNCHANGED << db, nextId, items, categories, searchQuery, isAuthReady, userId,
                  isLoading, error, uploading, uploadSuccess, authQueue, signIn,
                  listeners, snapPending, inflight, timers, outcome, lastOk, dbl, budget, pIn, pOut, remote, mounted >>

SetSearchQuery ==
  /\ Rendered
  /\ \E q \in Queries : searchQuery' = q
  /\ UNCHANGED << db, nextId, items, categories, selectedCategory, isAuthReady,
                  userId, isLoading, error, uploading, uploadSuccess, authQueue,
                  signIn, listeners, snapPending, inflight, timers, outcome, lastOk, dbl,
                  budget, pIn, pOut, remote, mounted >>

\* --------------------------------------------------------------- take/return
\* History only: the first item whose flag a handleTakeItem call wrote, its
\* value before that write, and how many such writes it has had (3: more than 2).
Tracked(itemId) ==
  IF dbl.calls = 0 THEN [id |-> itemId, orig |-> db[itemId].taken, calls |-> 1]
  ELSE IF dbl.id = itemId /\ dbl.calls < 3 THEN [dbl EXCEPT !.calls = @ + 1]
  ELSE dbl

\* Faulty variant: no check of userId.
TakeItemUnguarded(itemId, currentStatus) ==
  \/ /\ itemId \in DOMAIN db
     /\ db' = UpdateApplied(db, itemId, currentStatus)
     /\ Notify(db')
     /\ dbl' = Tracked(itemId)
     /\ UNCHANGED error
  \/ /\ error' = UpdateFailedMsg
     /\ UNCHANGED << db, snapPending, dbl >>

\* handleTakeItem(itemId, currentStatus).  updateDoc rejects when the document
\* does not exist, and may reject for any backend reason.
TakeItem(itemId, currentStatus) ==
  IF userId = NULL
  THEN /\ error' = SignInFirstMsg
       /\ UNCHANGED << db, snapPending, dbl >>
  ELSE \/ /\ itemId \in DOMAIN db
          /\ db' = UpdateApplied(db, itemId, currentStatus)
          /\ Notify(db')
          /\ dbl' = Tracked(itemId)
          /\ UNCHANGED error
       \/ /\ error' = UpdateFailedMsg
          /\ UNCHANGED << db, snapPending, dbl >>

\* A click on the Take Item / Return button of a displayed row.
ClickTakeItem ==
  /\ Rendered
  /\ \E k \in 1..Len(displayedItems) :
       TakeItem(displayedItems[k].id, displayedItems[k].taken)
  /\ UNCHANGED << nextId, items, categories, selectedCategory, searchQuery,
                  isAuthReady, userId, isLoading, uploading, uploadSuccess,
                  authQueue, signIn, listeners, inflight, timers, outcome,
                  lastOk, budget, pIn, pOut, remote, mounted >>

\* handleTakeItem called with any arguments, whatever is rendered: the
\* function's contract, as a caller other than a rendered row would see it.
InvokeTakeItem ==
  /\ \E itemId \in 1..MaxIds, currentStatus \in BOOLEAN :
       TakeItem(itemId, currentStatus)
  /\ UNCHANGED << nextId, items, categories, selectedCategory, searchQuery,
                  isAuthReady, userId, isLoading, uploading, uploadSuccess,
                  authQueue, signIn, listeners, inflight, timers, outcome,
                  lastOk, budget, pIn, pOut, remote, mounted >>

\* ------------------------------------------------------------------- upload
\* Faulty variant: the file input is never disabled.
UploadControlAlwaysEnabled == TRUE

\* The file input is rendered with disabled={uploading}.
UploadControlEnabled == ~uploading

\* The ids the uploads in flight will take when they commit.
RECURSIVE IdsAwaited(_)
IdsAwaited(k) ==
  IF k > Len(inflight) THEN 0
  ELSE Len(ParsedFile[inflight[k].file].items) + IdsAwaited(k + 1)

RemoteIdsAwaited ==
  IF remote.pc = "Committing" THEN Len(ParsedFile[remote.file].items) ELSE 0

\* The ids a run of the model may still hand out suffice for the file's rows.
IdsLeft(file) ==
  nextId + RemoteIdsAwaited + Len(ParsedFile[file].items) - 1 <= budget

\* Faulty variant: an empty parse result is let through.
NoParsedItemsNever(parsedItems) == FALSE

\* parsedItems.length === 0
NoParsedItems(parsedItems) == Len(parsedItems) = 0

\* Faulty variant: a failure path that does not reset uploading.
UploadFailsKeepsFlag(k, msg, at) ==
  /\ error' = msg
  /\ uploading' = uploading
  /\ inflight' = RemoveAt(inflight, k)
  /\ outcome' = [result |-> "Failed", at |-> at]

\* What every failure path of upload inflight[k] does: the message,
\* setUploading(false).
UploadFails(k, msg, at) ==
  /\ error' = msg
  /\ uploading' = FALSE
  /\ inflight' = RemoveAt(inflight, k)
  /\ outcome' = [result |-> "Failed", at |-> at]

\* handleFileUpload up to reader.readAsText(file).
StartUpload ==
  /\ Rendered
  /\ UploadControlEnabled
  /\ \E file \in Files \cup {NoFile} :
       IF file = NoFile
       THEN UNCHANGED << error, uploading, uploadSuccess, inflight >>
       ELSE /\ IdsLeft(file)
            /\ uploading' = TRUE
            /\ error' = NoError
            /\ uploadSuccess' = NoSuccess
            /\ inflight' = Append(inflight,
                 [file |-> file, pc |-> "Reading", parsedItems |-> << >>,
                  existing |-> {}, steps |-> << "Reading" >>,
                  startIds |-> DOMAIN db])
  /\ UNCHANGED << db, nextId, items, categories, selectedCategory, searchQuery,
                  isAuthReady, userId, isLoading, authQueue, signIn, listeners,
                  snapPending, timers, outcome, lastOk, dbl, budget, pIn, pOut, remote, mounted >>

\* reader.onload, up to the await of getDocs (or to the catch).
ReaderLoaded ==
  /\ \E k \in 1..Len(inflight) :
       /\ inflight[k].pc = "Reading"
       /\ LET r == ParsedFile[inflight[k].file]
          IN IF ~r.ok
             THEN UploadFails(k, UploadFailed(r.msg), "Parsing")
             ELSE IF NoParsedItems(r.items)
             THEN UploadFails(k, UploadFailed(NoItemsMsg), "Parsing")
             ELSE /\ inflight' = [inflight EXCEPT ![k] =
                       [@ EXCEPT !.pc = "Replacing", !.parsedItems = r.items,
                                 !.steps = @ \o << "Parsing", "Replacing" >>]]
                  /\ UNCHANGED << error, uploading, outcome >>
  /\ UNCHANGED << db, nextId, items, categories, selectedCategory, searchQuery,
                  isAuthReady, userId, isLoading, uploadSuccess, authQueue, signIn,
                  listeners, snapPending, timers, lastOk, dbl, budget, pIn, pOut, remote, mounted >>

\* reader.onerror.
ReaderFailed ==
  /\ \E k \in 1..Len(inflight) :
       /\ inflight[k].pc = "Reading"
       /\ UploadFails(k, ReadFailedMsg, "Reading")
  /\ UNCHANGED << db, nextId, items, categories, selectedCategory, searchQuery,
                  isAuthReady, userId, isLoading, uploadSuccess, authQueue, signIn,
                  listeners, snapPending, timers, lastOk, dbl, budget, pIn, pOut, remote, mounted >>

\* getDocs resolves: the batch is filled with a delete per fetched document and
\* a set per parsed item, and batch.commit() is awaited.
DocsFetched ==
  /\ \E k \in 1..Len(inflight) :
       /\ inflight[k].pc = "Replacing"
       /\ inflight' = [inflight EXCEPT ![k] =
            [@ EXCEPT !.pc = "Committing", !.existing = DOMAIN db,
                      !.steps = Append(@, "Committing")]]
  /\ UNCHANGED << db, nextId, items, categories, selectedCategory, searchQuery,
                  isAuthReady, userId, isLoading, error, uploading, uploadSuccess,
                  authQueue, signIn, listeners, snapPending, timers, outcome, lastOk, dbl,
                  budget, pIn, pOut, remote, mounted >>

\* getDocs rejects.
DocsFetchFailed ==
  /\ \E k \in 1..Len(inflight) :
       /\ inflight[k].pc = "Replacing"
       /\ UploadFails(k, UploadFailed(BackendMsg), "Replacing")
  /\ UNCHANGED << db, nextId, items, categories, selectedCategory, searchQuery,
                  isAuthReady, userId, isLoading, uploadSuccess, authQueue, signIn,
                  listeners, snapPending, timers, lastOk, dbl, budget, pIn, pOut, remote, mounted >>

\* batch.commit() resolves: the success message, setUploading(false), the timer.
BatchCommitted ==
  /\ \E k \in 1..Len(inflight) :
       LET u == inflight[k] IN
       /\ u.pc = "Committing"
       /\ db' = BatchApplied(db, u.existing, u.parsedItems, nextId)
       /\ nextId' = nextId + Len(u.parsedItems)
       /\ Notify(db')
       /\ uploadSuccess' = UploadedMsg(Len(u.parsedItems))
       /\ uploading' = FALSE
       /\ timers' = timers + 1
       /\ inflight' = RemoveAt(inflight, k)
       /\ outcome' = [result |-> "Success", at |-> "Committing"]
       /\ lastOk' = [file |-> u.file, size |-> Cardinality(DOMAIN db'),
                     run |-> IF lastOk.file = u.file THEN 2 ELSE 1]
  /\ UNCHANGED << items, categories, selectedCategory, searchQuery, isAuthReady,
                  userId, isLoading, error, authQueue, signIn, listeners, dbl,
                  budget, pIn, pOut, remote, mounted >>

\* batch.commit() rejects.
BatchCommitFailed ==
  /\ \E k \in 1..Len(inflight) :
       LET u == inflight[k] IN
       /\ u.pc = "Committing"
       /\ db' = BatchRejected(db, u.existing, u.parsedItems, nextId)
       /\ Notify(db')
       /\ UploadFails(k, UploadFailed(BackendMsg), "Committing")
  /\ UNCHANGED << nextId, items, categories, selectedCategory, searchQuery,
                  isAuthReady, userId, isLoading, uploadSuccess, authQueue, signIn,
                  listeners, timers, lastOk, dbl, budget, pIn, pOut, remote, mounted >>

\* The 5 s timeout of a successful upload fires.
SuccessTimerFired ==
  /\ timers > 0
  /\ timers' = timers - 1
  /\ uploadSuccess' = NoSuccess
  /\ UNCHANGED << db, nextId, items, categories, selectedCategory, searchQuery,
                  isAuthReady, userId, isLoading, error, uploading, authQueue,
                  signIn, listeners, snapPending, inflight, outcome, lastOk, dbl, budget, pIn, pOut, remote, mounted >>

\* ------------------------------------------------- an upload by another client
\* handleFileUpload run by another client on the same collection, seen from
\* this one: only its reads and writes of the collection.  Up to the await of
\* batch.commit(): the file was read and parsed to a non-empty list, getDocs
\* has resolved and the batch is filled.
RemoteDocsFetched ==
  /\ remote.pc = "Idle"
  /\ \E file \in Files :
       /\ ParsedFile[file].ok
       /\ ~NoParsedItems(ParsedFile[file].items)
       /\ nextId + IdsAwaited(1) + Len(ParsedFile[file].items) - 1 <= budget
       /\ remote' = [pc |-> "Committing", file |-> file, existing |-> DOMAIN db]
  /\ UNCHANGED << db, nextId, items, categories, selectedCategory, searchQuery,
                  isAuthReady, userId, isLoading, error, uploading, uploadSuccess,
                  authQueue, signIn, listeners, snapPending, inflight, timers,
                  outcome, lastOk, dbl, budget, pIn, pOut, mounted >>

\* The other client's batch.commit() resolves.
RemoteBatchCommitted ==
  /\ remote.pc = "Committing"
  /\ db' = BatchApplied(db, remote.existing, ParsedFile[remote.file].items, nextId)
  /\ nextId' = nextId + Len(ParsedFile[remote.file].items)
  /\ Notify(db')
  /\ remote' = [remote EXCEPT !.pc = "Done"]
  /\ UNCHANGED << items, categories, selectedCategory, searchQuery, isAuthReady,
                  userId, isLoading, error, uploading, uploadSuccess, authQueue,
                  signIn, listeners, inflight, timers, outcome, lastOk, dbl,
                  budget, pIn, pOut, mounted >>

\* The other client's batch.commit() rejects.
RemoteBatchCommitFailed ==
  /\ remote.pc = "Committing"
  /\ db' = BatchRejected(db, remote.existing, ParsedFile[remote.file].items, nextId)
  /\ Notify(db')
  /\ remote' = [remote EXCEPT !.pc = "Failed"]
  /\ UNCHANGED << nextId, items, categories, selectedCategory, searchQuery,
                  isAuthReady, userId, isLoading, error, uploading, uploadSuccess,
                  authQueue, signIn, listeners, inflight, timers, outcome, lastOk,
                  dbl, budget, pIn, pOut, mounted >>

\* ------------------------------------------------------------ specification
UploadProgress ==
  \/ ReaderLoaded \/ ReaderFailed \/ DocsFetched \/ DocsFetchFailed
  \/ BatchCommitted \/ BatchCommitFailed

Next ==
  \/ AuthStateChanged \/ SignInResolved \/ SignInContinued \/ SignInRejected
  \/ SnapshotDelivered \/ SnapshotFailed
  \/ ClickTakeItem
  \/ StartUpload
  \/ ReaderLoaded \/ ReaderFailed \/ DocsFetched \/ DocsFetchFailed
  \/ BatchCommitted \/ BatchCommitFailed
  \/ SuccessTimerFired

Spec == Init /\ [][Next]_vars

\* The same program with every asynchronous step of an upload (the file
\* read, getDocs, batch.commit) completing, one way or the other.
\* The program with every asynchronous step of an upload (the file read,
\* getDocs, batch.commit) completing, one way or the other.
FairSpec == Spec /\ WF_vars(UploadProgress)

\* The program with, besides, the pending steps of authentication (a queued
\* auth callback, the sign-in's outcome, the callback's resumption) and a
\* pending snapshot delivery happening.
AuthProgress ==
  AuthStateChanged \/ SignInResolved \/ SignInContinued \/ SignInRejected

InitLive ==
  /\ InitApp(MaxFewIds, FALSE, << >>)
  /\ pIn = << >>
  /\ pOut = NoParse

LiveSpec ==
  /\ InitLive
  /\ [][Next]_vars
  /\ WF_vars(AuthProgress)
  /\ WF_vars(SnapshotDelivered)
  /\ WF_vars(UploadProgress)

\* ----------------------------------------------- the view: filter and search
InitView ==
  /\ InitApp(MaxFewIds, FALSE, << >>)
  /\ pIn = << >>
  /\ pOut = NoParse

NextView == Next \/ SelectCategory \/ SetSearchQuery

SpecView == InitView /\ [][NextView]_vars

\* The view with ids enough for an upload that replaces an earlier one.
InitMirror ==
  /\ InitApp(MaxFewIds + 1, FALSE, << >>)
  /\ pIn = << >>
  /\ pOut = NoParse

SpecMirror == InitMirror /\ [][NextView]_vars

\* ------------------------------- identity changes and the view's discarding
InitIdentity ==
  /\ InitApp(MaxFewIds, FALSE, << >>)
  /\ pIn = << >>
  /\ pOut = NoParse

\* Nothing of the view runs once it is unmounted.
NextIdentity == mounted /\ (Next \/ IdentityChanged \/ Unmount)

SpecIdentity == InitIdentity /\ [][NextIdentity]_vars

\* The view with ids enough for two uploads of different files.
InitSelection ==
  /\ InitApp(MaxFewIds + 2, FALSE, << >>)
  /\ pIn = << >>
  /\ pOut = NoParse

SpecSelection == InitSelection /\ [][NextView]_vars

\* ------------------------------------------- take/return, with its history
InitToggle ==
  /\ InitApp(MaxFewIds, TRUE, << >>)
  /\ pIn = << >>
  /\ pOut = NoParse

SpecToggle == InitToggle /\ [][Next]_vars

\* --------------------------------------------- handleTakeItem as a function
\* The collection is shared: here an earlier session has uploaded file 2.
InitContract ==
  /\ InitApp(MaxFewIds + 2, FALSE, ParsedFile[2].items)
  /\ pIn = << >>
  /\ pOut = NoParse

NextContract == Next \/ InvokeTakeItem

SpecContract == InitContract /\ [][NextContract]_vars

\* ------------------------------------------------------ two clients uploading
\* Sign-in, the subscription and the uploads of both clients; no take/return
\* clicks, which create and delete no document.
InitRace ==
  /\ InitApp(MaxFewIds + 2, FALSE, << >>)
  /\ pIn = << >>
  /\ pOut = NoParse

NextRace ==
  \/ AuthStateChanged \/ SignInResolved \/ SignInContinued \/ SignInRejected
  \/ SnapshotDelivered \/ SnapshotFailed
  \/ StartUpload
  \/ ReaderLoaded \/ ReaderFailed \/ DocsFetched \/ DocsFetchFailed
  \/ BatchCommitted \/ BatchCommitFailed
  \/ SuccessTimerFired
  \/ RemoteDocsFetched \/ RemoteBatchCommitted \/ RemoteBatchCommitFailed

SpecRace == InitRace /\ [][NextRace]_vars

\* ---------------------------------------------------- parseCSV as a function
\* Header cells and data rows (their fields) the generated texts are made of.
HeaderRows ==
  { << sName, sCategory >>,
    << <<"C","a","t","e","g","o","r","y">>, <<" ","N","A","M","E">> >>,
    << sName >>,
    << <<"i","d">>, sName, sCategory >> }

DataRows ==
  { << <<"a">>, <<"X">> >>,
    << <<"b">>, << >> >>,
    << << >>, <<"Y">> >>,
    << <<"b">>, <<" ">> >>,
    << << >> >>,
    << <<"c">> >>,
    << <<"7">>, <<" ","A","b"," ">>, <<"Y">> >> }

RECURSIVE SeqsUpTo(_, _)
SeqsUpTo(S, n) ==
  IF n = 0 THEN { << >> }
  ELSE SeqsUpTo(S, n - 1)
         \cup { Append(q, x) : q \in { r \in SeqsUpTo(S, n - 1) : Len(r) = n - 1 }, x \in S }

ParseInputs == [header : HeaderRows, rows : SeqsUpTo(DataRows, MaxRows)]

RECURSIVE Join(_, _)
Join(parts, d) ==
  IF parts = << >> THEN << >>
  ELSE IF Len(parts) = 1 THEN parts[1]
  ELSE parts[1] \o << d >> \o Join(Tail(parts), d)

\* The text of a file with this header and these rows.
CsvText(in) ==
  Join([i \in 1..(1 + Len(in.rows)) |->
          IF i = 1 THEN Join(in.header, COMMA) ELSE Join(in.rows[i - 1], COMMA)], NL)

InitParse ==
  /\ InitApp(0, FALSE, << >>)
  /\ pIn \in ParseInputs
  /\ pOut = NoParse


ParseStep ==
  /\ ~pOut.done
  /\ pOut' = [done |-> TRUE, ok |-> parseCSV(CsvText(pIn)).ok,
              msg |-> parseCSV(CsvText(pIn)).msg,
              items |-> parseCSV(CsvText(pIn)).items]
  /\ UNCHANGED << appVars, pIn >>

SpecParse == InitParse /\ [][ParseStep]_vars

\* ------------------------------------------------------------------ claims
\* What the files hold, read off their text: the rows with a name.
AcceptedRows(f) == CASE f = 1 -> 3 [] f = 2 -> 2 [] OTHER -> 0

\* Upload inflight[k] leaves the workflow in this step from step pc.
FinishesFrom(k, pc) ==
  /\ inflight[k].pc = pc
  /\ inflight' = RemoveAt(inflight, k)

\* C1: an upload whose batch commit fails leaves the collection exactly as it
\* was (and holding the documents it held when the upload started), sets the
\* "Upload Failed: ..." error and resets uploading.
C1_CommitFailureAtomic ==
  [][\A k \in 1..Len(inflight) :
       (FinishesFrom(k, "Committing") /\ uploadSuccess' = NoSuccess)
         => /\ db' = db
            /\ DOMAIN db' = inflight[k].startIds
            /\ nextId' = nextId
            /\ error' = UploadFailed(BackendMsg)
            /\ ~uploading'
            /\ outcome' = [result |-> "Failed", at |-> "Committing"]]_vars

\* A commit has failed over a collection that held items.
C1_Witness ==
  /\ outcome = [result |-> "Failed", at |-> "Committing"]
  /\ error = UploadFailed(BackendMsg)
  /\ DOMAIN db # {}
  /\ ~uploading

\* C2: every committed upload leaves exactly the file's accepted rows in the
\* collection, none of them a document that was there before; committing the
\* same file again gives the size the previous commit gave.
C2_FullReplace ==
  [][\A k \in 1..Len(inflight) :
       (FinishesFrom(k, "Committing") /\ uploadSuccess' # NoSuccess)
         => /\ Cardinality(DOMAIN db') = AcceptedRows(inflight[k].file)
            /\ DOMAIN db' \cap DOMAIN db = {}
            /\ lastOk.file = inflight[k].file
                 => Cardinality(DOMAIN db') = lastOk.size]_vars

\* The same file has been committed twice in succession.
C2_Witness ==
  /\ lastOk.run = 2
  /\ lastOk.size = Cardinality(DOMAIN db)
  /\ outcome.result = "Success"

\* C3: at most one upload is in flight, uploading is true exactly while one
\* is, and while it is true no upload can be started.
C3_SingleFlight ==
  /\ Len(inflight) <= 1
  /\ uploading <=> (inflight # << >>)
  /\ uploading => ~ENABLED StartUpload

\* An upload is in flight while the main UI, and with it the file input, is
\* rendered.
C3_Witness == uploading /\ Rendered /\ Len(inflight) = 1

\* Each upload in flight has gone through the steps in order, up to its own.
StepsInOrder ==
  \A k \in 1..Len(inflight) :
    /\ inflight[k].steps = SubSeq(Order, 1, Len(inflight[k].steps))
    /\ inflight[k].pc = inflight[k].steps[Len(inflight[k].steps)]

\* C4: an upload that is started goes through Reading, Parsing, Replacing and
\* Committing in that order and, every asynchronous step completing, ends with
\* uploading false and no upload in flight.
C4_UploadEnds ==
  /\ []StepsInOrder
  /\ uploading ~> (~uploading /\ inflight = << >>)

\* An upload has ended by a rejected getDocs.
C4_Witness ==
  /\ outcome = [result |-> "Failed", at |-> "Replacing"]
  /\ ~uploading
  /\ inflight = << >>

\* The message an upload of file f leaves when it fails before Replacing.
EarlyFailureMsgs(f) ==
  {ReadFailedMsg}
    \cup (IF f = 3 THEN {UploadFailed(FormatErrorMsg)} ELSE {})
    \cup (IF f = 4 THEN {UploadFailed(NoItemsMsg)} ELSE {})

\* C5: a file without the two columns or without an accepted row never gets
\* to Replacing or Committing, and an upload that fails in Reading or Parsing
\* writes nothing and leaves its failure's message in the error slot.
C5_EarlyFailureWritesNothing ==
  /\ [](\A k \in 1..Len(inflight) :
          inflight[k].pc \in {"Replacing", "Committing"}
            => AcceptedRows(inflight[k].file) > 0)
  /\ [][\A k \in 1..Len(inflight) :
          FinishesFrom(k, "Reading")
            => /\ db' = db
               /\ nextId' = nextId
               /\ snapPending' = snapPending
               /\ error' \in EarlyFailureMsgs(inflight[k].file)
               /\ ~uploading'
               /\ outcome'.result = "Failed"]_vars

\* A header-only file was rejected over a collection that held items.
C5_Witness ==
  /\ outcome = [result |-> "Failed", at |-> "Parsing"]
  /\ error = UploadFailed(NoItemsMsg)
  /\ DOMAIN db # {}

\* C6: once an item has had two handleTakeItem writes and the mirror shows the
\* collection as it is, the item's taken flag is what it was before the two.
C6_DoubleToggleRestores ==
  (/\ dbl.calls = 2
   /\ dbl.id \in DOMAIN db
   /\ listeners > 0
   /\ ~snapPending
   /\ items = SnapshotDocs(db))
    => db[dbl.id].taken = dbl.orig

\* C7: while the session identity is null no step writes the collection, and
\* a handleTakeItem call leaves the authorization message in the error slot.
C7_NoIdentityNoWrite ==
  [][userId = NULL
       => /\ db' = db
          /\ \A itemId \in 1..MaxIds, currentStatus \in BOOLEAN :
               TakeItem(itemId, currentStatus) => error' = SignInFirstMsg]_vars

\* handleTakeItem has been called without an identity, for a stored item.
C7_Witness ==
  /\ userId = NULL
  /\ error = SignInFirstMsg
  /\ DOMAIN db # {}

\* C8: every stored item has a non-empty name, a non-empty category and a
\* boolean taken.
C8_DataModel ==
  \A id \in DOMAIN db :
    /\ db[id].name # << >>
    /\ db[id].category # << >>
    /\ db[id].taken \in BOOLEAN

\* The record the row rules give for a data row (its fields), if any.
RowRecord(fields, nameCol, catCol) ==
  LET name == IF nameCol <= Len(fields) THEN trim(fields[nameCol]) ELSE << >>
      cat == IF catCol <= Len(fields) THEN trim(fields[catCol]) ELSE << >>
  IN IF name = << >> THEN << >>
     ELSE << [name |-> name,
              category |-> IF cat = << >> THEN Uncategorized ELSE cat,
              taken |-> FALSE] >>

RECURSIVE RowRecords(_, _, _, _)
RowRecords(rows, i, nameCol, catCol) ==
  IF i > Len(rows) THEN << >>
  ELSE RowRecord(rows[i], nameCol, catCol) \o RowRecords(rows, i + 1, nameCol, catCol)

ColumnOf(header, x) ==
  IF \E i \in 1..Len(header) : toLowerCase(trim(header[i])) = x
  THEN CHOOSE i \in 1..Len(header) :
         /\ toLowerCase(trim(header[i])) = x
         /\ \A j \in 1..(i - 1) : toLowerCase(trim(header[j])) # x
  ELSE 0

\* C9: for a header with both columns the parser returns, in input order, one
\* record per row with a non-empty trimmed name, its category "Uncategorized"
\* when the category field is missing, empty or blank, taken false.
C9_RowRules ==
  (pOut.done /\ ColumnOf(pIn.header, sName) > 0 /\ ColumnOf(pIn.header, sCategory) > 0)
    => /\ pOut.ok
       /\ pOut.items = RowRecords(pIn.rows, 1, ColumnOf(pIn.header, sName),
                                  ColumnOf(pIn.header, sCategory))

\* The mirror's items in the selected category, counted one by one.
InCategory == { i \in 1..Len(items) :
                  selectedCategory = All \/ items[i].category = selectedCategory }

\* C10: the dashboard numbers count the mirror's items of the selected
\* category, whatever the search text, and a step that changes neither the
\* mirror nor the selection leaves them as they are.
C10_StatsIgnoreSearch ==
  /\ [](/\ dashboardStats.total = Cardinality(InCategory)
        /\ dashboardStats.taken = Cardinality({ i \in InCategory : items[i].taken })
        /\ dashboardStats.notTaken = dashboardStats.total - dashboardStats.taken
        /\ 0 <= dashboardStats.taken
        /\ dashboardStats.taken <= dashboardStats.total)
  /\ [][(items' = items /\ selectedCategory' = selectedCategory)
          => dashboardStats' = dashboardStats]_vars

\* A category is selected, one of its two items is taken, and the search text
\* hides one of them from the list.
C10_Witness ==
  /\ Rendered
  /\ selectedCategory # All
  /\ searchQuery # << >>
  /\ dashboardStats = [total |-> 2, taken |-> 1, notTaken |-> 1]
  /\ Len(displayedItems) = 1
  /\ Len(items) = 3

\* An item passes both filters: its category is the selection (or the
\* selection is "All") and the search text occurs in its name, letter case
\* aside, at some position.
PassesFilters(item) ==
  /\ selectedCategory = All \/ item.category = selectedCategory
  /\ \/ searchQuery = << >>
     \/ \E p \in 0..(Len(item.name) - Len(searchQuery)) :
          \A j \in 1..Len(searchQuery) :
            LowerChar(item.name[p + j]) = LowerChar(searchQuery[j])

\* The mirror's items from position i on that pass both filters, in order.
RECURSIVE PassingFrom(_)
PassingFrom(i) ==
  IF i > Len(items) THEN << >>
  ELSE (IF PassesFilters(items[i]) THEN << items[i] >> ELSE << >>) \o PassingFrom(i + 1)

\* sub is got from seq by leaving elements out.
RECURSIVE IsSubList(_, _)
IsSubList(sub, seq) ==
  IF sub = << >> THEN TRUE
  ELSE IF seq = << >> THEN FALSE
  ELSE IF Head(sub) = Head(seq) THEN IsSubList(Tail(sub), Tail(seq))
  ELSE IsSubList(sub, Tail(seq))

\* C11: the displayed list is exactly the mirror's items, in mirror order, of
\* the selected category (all when "All" is selected) whose name contains the
\* search text whatever the letter case (all when the text is empty); it is a
\* sub-list of the category-filtered list.
C11_FilterPipeline ==
  /\ displayedItems = PassingFrom(1)
  /\ IsSubList(displayedItems, categoryFilteredItems)
  /\ IsSubList(categoryFilteredItems, items)

\* Both filters are on and each leaves something out: the search text "B"
\* keeps "Ab" of the two items of the selected category.
C11_Witness ==
  /\ Rendered
  /\ selectedCategory # All
  /\ searchQuery = << "B" >>
  /\ Len(categoryFilteredItems) < Len(items)
  /\ Len(displayedItems) < Len(categoryFilteredItems)
  /\ \E k \in 1..Len(displayedItems) : displayedItems[k].name = << "A", "b" >>

\* C12: a committed upload records the message with its item count and sets
\* its timer, and a message goes away only when a new upload starts or when
\* the timer of the upload that set it fires.  Timers of one delay fire in the
\* order they were set, and any firing clears the message: while a message is
\* shown the timer of its upload is the last one set and still pending, so the
\* firing timer is that one exactly when it is the only one pending.
C12_SuccessMessageLifetime ==
  /\ [][\A k \in 1..Len(inflight) :
          (FinishesFrom(k, "Committing") /\ outcome'.result = "Success")
            => /\ uploadSuccess' = UploadedMsg(Len(inflight[k].parsedItems))
               /\ timers' = timers + 1]_vars
  /\ [][(uploadSuccess # NoSuccess /\ uploadSuccess' = NoSuccess)
          => \/ Len(inflight') > Len(inflight)
             \/ timers = 1 /\ timers' = 0]_vars

\* What a commit that deleted the ids of `existing` has left of d in d2:
\* none of those ids, and every other document as it was.
DeletedOnlyFetched(d, d2, existing) ==
  /\ DOMAIN d2 \cap existing = {}
  /\ \A id \in DOMAIN d \ existing : id \in DOMAIN d2 /\ d2[id] = d[id]

\* C13: a commit, of this client or of the other, deletes the documents its
\* earlier read fetched and no others: a document another uploader created
\* after that read stays, so that two concurrent uploads can leave the items
\* of both files in the collection.
C13_ReadOutsideBatch ==
  /\ [][\A k \in 1..Len(inflight) :
          (FinishesFrom(k, "Committing") /\ outcome'.result = "Success")
            => DeletedOnlyFetched(db, db', inflight[k].existing)]_vars
  /\ [][(remote.pc = "Committing" /\ remote'.pc = "Done")
          => DeletedOnlyFetched(db, db', remote.existing)]_vars

\* Both uploads have committed and the collection holds the rows of both
\* files, more than either upload put there.
C13_Witness ==
  /\ remote.pc = "Done"
  /\ outcome.result = "Success"
  /\ inflight = << >>
  /\ lastOk.run = 1
  /\ Cardinality(DOMAIN db) = AcceptedRows(lastOk.file) + AcceptedRows(remote.file)
  /\ \E id \in DOMAIN db : id \notin remote.existing /\ id < nextId - AcceptedRows(remote.file)

\* The list its shows the collection d in full: one entry per document, with
\* the document's id and fields, and nothing else.
ShowsInFull(its, d) ==
  /\ Len(its) = Cardinality(DOMAIN d)
  /\ \A i \in 1..Len(its) :
       /\ its[i].id \in DOMAIN d
       /\ its[i].name = d[its[i].id].name
       /\ its[i].category = d[its[i].id].category
       /\ its[i].taken = d[its[i].id].taken
       /\ \A j \in 1..Len(its) : its[j].id = its[i].id => j = i

\* C14: the mirror changes only in a step that delivers a snapshot to a live
\* listener, and then it becomes the collection's contents in full; a step
\* that writes the collection (a take/return, an upload's commit) and every
\* other step leaves the mirror as it is.
C14_MirrorOnlyFromSnapshots ==
  /\ [][items' # items
          => /\ listeners > 0 /\ snapPending /\ ~snapPending'
             /\ db' = db
             /\ ShowsInFull(items', db)]_vars
  /\ [][db' # db => items' = items]_vars

\* A take/return has been written and the mirror still shows the old flag,
\* the snapshot not yet delivered.
C14_Witness ==
  /\ Rendered
  /\ snapPending
  /\ \E i \in 1..Len(items) :
       /\ items[i].id \in DOMAIN db
       /\ db[items[i].id].taken # items[i].taken

\* C15: once a sign-in has failed (only that leaves its message in the error
\* slot), a state follows in which the message is on screen: the error slot
\* holds it and the main UI, not the "Loading..." screen, is rendered.
C15_AuthFailureShown ==
  (error = AuthFailedMsg) ~> (error = AuthFailedMsg /\ Rendered)

\* A step in which an invocation of the auth callback runs its last statement,
\* setIsAuthReady(true): an invocation with a user does so at once, one with
\* null when its sign-in attempt has resolved or rejected.
CallbackSignals ==
  \/ authQueue # << >> /\ Head(authQueue) # NULL /\ authQueue' = Tail(authQueue)
  \/ signIn # "none" /\ signIn' = "none"

\* C16 as stated: the one attached listener signals readiness once (a signal
\* finds the flag still false), not while a sign-in attempt is pending, and
\* the flag never returns to false.
C16_ReadySignalledOnce ==
  /\ [][CallbackSignals => ~isAuthReady]_vars
  /\ [][(~isAuthReady /\ isAuthReady') => signIn' # "pending"]_vars
  /\ [][isAuthReady => isAuthReady']_vars

\* C16 amended: readiness is signalled once per invocation of the callback, at
\* its end, a null invocation's not before its sign-in attempt has ended one
\* way or the other; the flag turns true in such a step only, does turn true,
\* and never returns to false.
C16_ReadyOncePerCallback ==
  /\ [][CallbackSignals => isAuthReady']_vars
  /\ [][(~isAuthReady /\ isAuthReady') => (CallbackSignals /\ signIn' # "pending")]_vars
  /\ [][isAuthReady => isAuthReady']_vars
  /\ [](signIn = "pending" => ~isAuthReady)
  /\ <>isAuthReady

\* A fresh sign-in has succeeded: the invocation with the new user has
\* signalled, and the one that signed in is about to signal again.
C16_Witness ==
  /\ isAuthReady
  /\ signIn = "resolved"
  /\ userId # NULL

\* C17: the step in which the subscription of the mounted view fails (its live
\* listener is lost) sets the load-failure message and clears loading, and
\* leaves the mirror and the category set exactly as they were.
C17_StaleButAvailable ==
  [][(listeners > 0 /\ listeners' < listeners /\ mounted')
       => /\ error' = LoadFailedMsg
          /\ ~isLoading'
          /\ items' = items
          /\ categories' = categories]_vars

\* The subscription has failed after items were loaded: they are still there,
\* shown under the message.
C17_Witness ==
  /\ error = LoadFailedMsg
  /\ listeners = 0
  /\ Rendered
  /\ items # << >>
  /\ Len(categories) > 1

\* C18: the view never has more than one live listener, and has one only
\* while it is mounted, auth is ready and there is a user id; after a step
\* that changes the identity the only live listener is the one just opened
\* (its first snapshot is awaited), and unmounting leaves none.
C18_NoDuplicateListeners ==
  /\ [](listeners <= 1)
  /\ [](listeners > 0 => (mounted /\ isAuthReady /\ userId # NULL))
  /\ [][(isAuthReady' # isAuthReady \/ userId' # userId)
          => (listeners' > 0 => (listeners' = 1 /\ isLoading' /\ snapPending'))]_vars
  /\ [][~mounted' => listeners' = 0]_vars

\* The identity has changed under a live listener: the view awaits the first
\* snapshot of the new subscription, with the items of the old one.
C18_Witness ==
  /\ userId \in OtherUsers
  /\ listeners = 1
  /\ isLoading
  /\ items # << >>

\* C19: whenever the main UI is rendered there is a session identity, and the
\* authorization message of handleTakeItem's null-identity branch is never
\* in the error slot; isLoading is cleared only in a step of a live listener,
\* which a session identity has opened, and userId never returns to null.
C19_RenderedHasIdentity ==
  /\ [](Rendered => userId # NULL)
  /\ [](error # SignInFirstMsg)
  /\ [][(isLoading /\ ~isLoading') => (listeners > 0 /\ userId # NULL)]_vars
  /\ [][userId # NULL => userId' # NULL]_vars

\* A click on a displayed row has run handleTakeItem past its identity check:
\* the update was attempted and rejected.
C19_Witness ==
  /\ Rendered
  /\ userId # NULL
  /\ items # << >>
  /\ error = UpdateFailedMsg

\* The category values of the first n mirror items, each once, in the order
\* of their first occurrence.
RECURSIVE DiscoveredCategories(_)
DiscoveredCategories(n) ==
  IF n = 0 THEN << >>
  ELSE IF \E j \in 1..(n - 1) : items[j].category = items[n].category
       THEN DiscoveredCategories(n - 1)
       ELSE Append(DiscoveredCategories(n - 1), items[n].category)

InCategorySet(c) == \E k \in 1..Len(categories) : categories[k] = c

\* C20: once a snapshot has been delivered, the category set is "All"
\* followed by the mirror items' category values, each once, in discovery
\* order; every mirror item's category is in the set; and the selected
\* category is in the set.  Stated for the mirrors in which every item has a
\* category, those the parser's handling of a blank category field (C9) has
\* no part in.
C20_CategorySetCoversSelection ==
  (categories # << >> /\ \A i \in 1..Len(items) : items[i].category # << >>)
    => /\ categories = << All >> \o DiscoveredCategories(Len(items))
       /\ \A i \in 1..Len(items) : InCategorySet(items[i].category)
       /\ InCategorySet(selectedCategory)

====
